---- MODULE Spec2Model ----
(***************************************************************************)
(* State-machine model of the personal-weather-station dashboard:          *)
(*   WeatherApp       (src/src/components/WeatherCard.tsx, lines 53-119)   *)
(*   WeatherConfig    (src/src/components/WeatherConfig.tsx)               *)
(*   WeatherDashboard (src/src/components/WeatherDashboard.tsx)            *)
(*   WeatherHistory   (src/unnamed/part_000)                               *)
(*                                                                         *)
(* Conventions.  A nullable value (T | null) is a sequence of length 0     *)
(* (null) or 1 (the value).  A text the user types is a sequence of        *)
(* characters, so that trim() can be computed.  An error message is a      *)
(* tuple, so that the template `HTTP error! status: ${status}` keeps its   *)
(* status.  A component's state exists while it is mounted; while it is    *)
(* not, its variables hold the values useState would give a new instance.  *)
(***************************************************************************)
EXTENDS Integers, Sequences, FiniteSets, TLC

\* ---------------------------------------------------------------- bounds
\* Requests one component instance may initiate (per mount, per fetcher).
MaxFetches == 2
\* Longest summaries array the transport delivers.
MaxSummaries == 8
\* Longest observations array the transport delivers.
MaxObservations == 2
\* Readings of the wall clock (new Date()) range over 1..MaxClock.
MaxClock == 2

\* ------------------------------------------------------- nullable values
Null == <<>>
Some(x) == <<x>>
IsNull(v) == v = <<>>
Val(v) == v[1]

\* ------------------------------------------------------------ user texts
\* Texts the user can type in the two inputs of the form.
KeyInputs == { <<>>, <<" ">>, <<"k">>, <<" ", "k">> }
StationInputs == { <<>>, <<" ">>, <<"s">> }
\* A property that is absent from a parsed object (JavaScript undefined).
Undefined == <<"undefined">>

IsWhitespace(c) == c = " "

RECURSIVE TrimStart(_)
TrimStart(s) ==
  IF s # <<>> /\ IsWhitespace(Head(s)) THEN TrimStart(Tail(s)) ELSE s

RECURSIVE TrimEnd(_)
TrimEnd(s) ==
  IF s # <<>> /\ IsWhitespace(s[Len(s)])
  THEN TrimEnd(SubSeq(s, 1, Len(s) - 1))
  ELSE s

\* String.prototype.trim
Trim(s) == TrimEnd(TrimStart(s))

\* JavaScript truthiness of a string-or-undefined value.
Truthy(s) == s # <<>> /\ s # Undefined

\* ------------------------------------------------- localStorage and JSON
\* The 'weatherConfig' item of localStorage: absent, or a text.  A JSON
\* text is its sequence of tokens.
NoItem == [present |-> FALSE, text |-> <<>>]
Item(t) == [present |-> TRUE, text |-> t]

\* JSON.stringify of a WeatherConfigData; an undefined property is left out.
Stringify(c) ==
  <<"{">>
  \o (IF c.apiKey = Undefined THEN <<>> ELSE <<"apiKey", c.apiKey>>)
  \o (IF c.stationId = Undefined THEN <<>> ELSE <<"stationId", c.stationId>>)
  \o <<"rememberMe", c.rememberMe>>
  \o <<"}">>

\* The value of property `name` among the name/value tokens of an object text.
RECURSIVE Lookup(_, _, _, _)
Lookup(t, i, name, absent) ==
  IF i + 1 >= Len(t) THEN absent
  ELSE IF t[i] = name THEN t[i + 1]
  ELSE Lookup(t, i + 2, name, absent)

IsObjectText(t) ==
  /\ Len(t) >= 2
  /\ Len(t) % 2 = 0
  /\ t[1] = "{"
  /\ t[Len(t)] = "}"

\* JSON.parse: ok = FALSE is a SyntaxError; the text `null` parses to null.
\* rememberMe is only ever read as `rememberMe || false`, so an absent
\* rememberMe is read as FALSE.
Parse(t) ==
  IF IsObjectText(t)
  THEN [ok |-> TRUE,
        value |-> Some([apiKey |-> Lookup(t, 2, "apiKey", Undefined),
                        stationId |-> Lookup(t, 2, "stationId", Undefined),
                        rememberMe |-> Lookup(t, 2, "rememberMe", FALSE)])]
  ELSE IF t = <<"null">>
  THEN [ok |-> TRUE, value |-> Null]
  ELSE [ok |-> FALSE, value |-> Null]

\* What localStorage may hold when the application starts: no item, the
\* empty text, a saved configuration, an object without apiKey, the text
\* `null`, a truncated text.
StoredInputs ==
  { NoItem,
    Item(<<>>),
    Item(Stringify([apiKey |-> <<"k">>, stationId |-> <<"s">>, rememberMe |-> TRUE])),
    Item(<<"{", "stationId", <<"s">>, "rememberMe", TRUE, "}">>),
    Item(<<"null">>),
    Item(<<"{", "apiKey">>) }

\* -------------------------------------------------------------- messages
MsgInvalidKey == <<"Invalid API key. Please check your configuration.">>
MsgStationNotFound == <<"Weather station not found. Please check your station ID.">>
MsgHttp(status) == <<"HTTP error! status: ", status>>
MsgNoWeather == <<"No weather data available for this station">>
MsgNoHistory == <<"No historical data available for this station">>
MsgNetwork == <<"Failed to fetch">>
MsgSyntax == <<"Unexpected token < in JSON at position 0">>
MsgFallbackWeather == <<"Failed to fetch weather data">>
MsgFallbackHistory == <<"Failed to fetch weather history">>

\* A thrown value: an Error carrying a message, or something else.
Err(m) == [isError |-> TRUE, message |-> m]

\* err instanceof Error ? err.message : fallback
ErrorMessage(err, fallback) == IF err.isError THEN err.message ELSE fallback

\* The toast shown last, by its title and variant.  Its description is left
\* out: it is a fixed text, or the message that is also stored as `error`.
Toast(title, variant) == Some([title |-> title, variant |-> variant])
ToastWeatherUpdated == Toast("Weather Updated", "default")
ToastHistoryUpdated == Toast("History Updated", "default")
ToastError == Toast("Error", "destructive")
ToastMissingKey == Toast("Missing API Key", "destructive")
ToastMissingStation == Toast("Missing Station ID", "destructive")
ToastSaved == Toast("Configuration Saved", "default")

\* ------------------------------------------------------------- transport
\* HTTP statuses the weather API answers with.
Statuses == {200, 401, 404, 500}

\* Response.ok
ResponseOk(status) == status >= 200 /\ status <= 299

\* Metric values a reading can carry.
Temps == {10, 20}

\* The observations a station can report (WeatherData, reduced to its
\* identity and one metric field).
Readings(stationId) == { [stationID |-> stationId, temp |-> t] : t \in Temps }

\* All sequences over S of length at most n.
SeqsUpTo(S, n) == UNION { [1..k -> S] : k \in 0..n }

\* A decoded body: its list property (observations / summaries), which may
\* be missing.
NoList == [hasList |-> FALSE, list |-> <<>>]
List(l) == [hasList |-> TRUE, list |-> l]

\* Bodies { observations: [...] } of the current-conditions endpoint.
WeatherBodies(stationId) ==
  {NoList} \cup { List(l) : l \in SeqsUpTo(Readings(stationId), MaxObservations) }

\* The daily summaries of a station, oldest first: day i has epoch i.
Summaries(stationId, n) == [i \in 1..n |-> [stationID |-> stationId, epoch |-> i]]

\* The lengths of the summaries arrays the transport delivers: none, one,
\* two, and the longest.
SummaryCounts == {0, 1, 2, MaxSummaries}

\* Bodies { summaries: [...] } of the 7-day endpoint.
HistoryBodies(stationId) ==
  {NoList} \cup { List(Summaries(stationId, n)) : n \in SummaryCounts }

NoErr == [isError |-> FALSE, message |-> <<>>]

\* How the network answers one call of `fetch(apiUrl)` followed by
\* `response.json()`: fetch rejects; or it resolves with a status, and json(),
\* if called, rejects or resolves with a body.  errorBody is the body of
\* the error responses.
Answers(bodies, errorBody) ==
  { [rejected |-> TRUE, err |-> Err(MsgNetwork), status |-> 0,
     jsonRejected |-> TRUE, jsonErr |-> Err(MsgSyntax), body |-> NoList] }
  \cup { [rejected |-> FALSE, err |-> NoErr, status |-> st,
          jsonRejected |-> TRUE, jsonErr |-> Err(MsgSyntax), body |-> NoList] :
         st \in {st \in Statuses : ResponseOk(st)} }
  \cup { [rejected |-> FALSE, err |-> NoErr, status |-> st,
          jsonRejected |-> FALSE, jsonErr |-> NoErr, body |-> b] :
         st \in {st \in Statuses : ResponseOk(st)}, b \in bodies }
  \cup { [rejected |-> FALSE, err |-> NoErr, status |-> st,
          jsonRejected |-> FALSE, jsonErr |-> NoErr, body |-> errorBody] :
         st \in {st \in Statuses : ~ResponseOk(st)} }

\* The answers to a current-conditions request; an error response carries
\* a decodable body with a full observations list.
WeatherAnswers(stationId) ==
  Answers(WeatherBodies(stationId),
          List([i \in 1..MaxObservations |-> [stationID |-> stationId, temp |-> 10]]))

\* The answers to a 7-day request.
HistoryAnswers(stationId) ==
  Answers(HistoryBodies(stationId), List(Summaries(stationId, MaxSummaries)))

\* Array.prototype.reverse
RECURSIVE Reverse(_)
Reverse(s) == IF s = <<>> THEN <<>> ELSE Append(Reverse(Tail(s)), Head(s))

\* getWindDirection: directions[Math.round(degrees / 22.5) % 16].
Directions ==
  << "N", "NNE", "NE", "ENE", "E", "ESE", "SE", "SSE",
     "S", "SSW", "SW", "WSW", "W", "WNW", "NW", "NNW" >>

\* Math.round of the ratio n / d (d > 0): the nearest integer, halves up.
RoundRatio(n, d) == (2 * n + d) \div (2 * d)

\* getWindDirection with Math.floor in place of Math.round.
getWindDirectionFloor(deg) == Directions[(((2 * deg) \div 45) % 16) + 1]

\* WeatherDashboard.getWindDirection; degrees / 22.5 is (2 * degrees) / 45.
getWindDirection(deg) == Directions[(RoundRatio(2 * deg, 45) % 16) + 1]

\* WeatherHistory.getWindDirection
historyGetWindDirection(deg) == Directions[(RoundRatio(2 * deg, 45) % 16) + 1]

\* ----------------------------------------------------------------- state
VARIABLES
  store,            \* localStorage item 'weatherConfig'
  toast,            \* the notification shown last
  config,           \* WeatherApp: WeatherConfigData | null
  showConfig,       \* WeatherApp
  isLoading,        \* WeatherApp
  formConfig,       \* WeatherConfig: its `config` state; null while unmounted
  weatherData,      \* WeatherDashboard: WeatherData | null
  loading,          \* WeatherDashboard
  error,            \* WeatherDashboard: string | null
  lastUpdate,       \* WeatherDashboard: Date | null
  showHistory,      \* WeatherDashboard
  timers,           \* number of live setInterval timers
  requests,         \* WeatherDashboard: calls of fetchWeatherData not yet settled
  issued,           \* WeatherDashboard: calls of fetchWeatherData so far
  historyData,      \* WeatherHistory: DailySummary[]
  historyLoading,   \* WeatherHistory: `loading`
  historyError,     \* WeatherHistory: `error`
  historyRequests,  \* WeatherHistory: calls of fetchHistoryData not yet settled
  historyIssued,    \* WeatherHistory: calls of fetchHistoryData so far
  detached,         \* pending calls whose component instance is unmounted
  degrees,          \* argument of the wind-direction lookup
  windDirection     \* its results <<Dashboard's, History's>>, or null

appVars == <<config, showConfig, isLoading>>
dashVars == <<weatherData, loading, error, lastUpdate, showHistory, requests, issued>>
histVars == <<historyData, historyLoading, historyError, historyRequests, historyIssued>>
windVars == <<degrees, windDirection>>
vars == <<store, toast, appVars, formConfig, dashVars, timers, histVars, detached, windVars>>

\* ------------------------------------------------------------- rendering
\* WeatherApp renders WeatherDashboard (WeatherCard.tsx 91-118).
DashboardMounted == ~isLoading /\ ~showConfig /\ ~IsNull(config)

\* WeatherApp renders WeatherConfig.
ConfigMounted == ~isLoading /\ (showConfig \/ IsNull(config))

\* Which of its returns WeatherDashboard takes (WeatherDashboard.tsx 170-218).
DashboardView ==
  IF loading /\ IsNull(weatherData) THEN "loading"
  ELSE IF ~IsNull(error) /\ IsNull(weatherData) THEN "error"
  ELSE IF IsNull(weatherData) THEN "blank"
  ELSE IF showHistory THEN "history"
  ELSE "data"

HistoryMounted == DashboardMounted /\ DashboardView = "history"

\* Which of its returns WeatherHistory takes (part_000 154-190).
HistoryView ==
  IF historyLoading THEN "loading"
  ELSE IF ~IsNull(historyError) THEN "error"
  ELSE "data"

\* The view mode of the application.
ViewMode ==
  IF isLoading THEN "Starting"
  ELSE IF ConfigMounted THEN "Configuring"
  ELSE IF DashboardView = "history" THEN "History"
  ELSE "Dashboard"

\* --------------------------------------------------------- initial state
Init ==
  /\ store \in StoredInputs
  /\ toast = Null
  /\ config = Null
  /\ showConfig = FALSE
  /\ isLoading = TRUE
  /\ formConfig = Null
  /\ weatherData = Null
  /\ loading = TRUE
  /\ error = Null
  /\ lastUpdate = Null
  /\ showHistory = FALSE
  /\ timers = 0
  /\ requests = {}
  /\ issued = 0
  /\ historyData = <<>>
  /\ historyLoading = TRUE
  /\ historyError = Null
  /\ historyRequests = {}
  /\ historyIssued = 0
  /\ detached = {}
  /\ degrees = 0
  /\ windDirection = Null

\* ------------------------------------------------- the two fetch functions
\* Request with the apiKey of the URL fixed at one key.
RequestFixedKey(id, cfg) == [id |-> id, apiKey |-> <<"k">>, stationId |-> cfg.stationId]

\* A call of fetchWeatherData / fetchHistoryData suspended at its awaits.
\* The call changes no state between `await fetch(apiUrl)` and
\* `await response.json()`, so the two are one suspension.  apiKey and
\* stationId are the query parameters of the URL it built.
Request(id, cfg) == [id |-> id, apiKey |-> cfg.apiKey, stationId |-> cfg.stationId]

\* How a resumed call ends: in the catch block with a message, or at the end
\* of the try block with data.
Caught(err, fallback) ==
  [ok |-> FALSE, data |-> Null, message |-> ErrorMessage(err, fallback)]
Succeeded(d) == [ok |-> TRUE, data |-> Some(d), message |-> <<>>]

\* StatusError without the 401 and 404 branches.
StatusErrorGeneric(status) == Err(MsgHttp(status))

\* The `if (!response.ok)` block, the same in both fetch functions.
StatusError(status) ==
  IF status = 401 THEN Err(MsgInvalidKey)
  ELSE IF status = 404 THEN Err(MsgStationNotFound)
  ELSE Err(MsgHttp(status))

\* WeatherResult taking the last observation instead of the first.
WeatherResultLast(a) ==
  IF a.rejected THEN Caught(a.err, MsgFallbackWeather)
  ELSE IF ~ResponseOk(a.status) THEN Caught(StatusError(a.status), MsgFallbackWeather)
  ELSE IF a.jsonRejected THEN Caught(a.jsonErr, MsgFallbackWeather)
  ELSE IF a.body.hasList /\ Len(a.body.list) > 0
  THEN Succeeded(a.body.list[Len(a.body.list)])
  ELSE Caught(Err(MsgNoWeather), MsgFallbackWeather)

\* fetchWeatherData from `await fetch(apiUrl)` on, for the answer a
\* (WeatherDashboard.tsx 94-120).
WeatherResult(a) ==
  IF a.rejected THEN Caught(a.err, MsgFallbackWeather)
  ELSE IF ~ResponseOk(a.status) THEN Caught(StatusError(a.status), MsgFallbackWeather)
  ELSE IF a.jsonRejected THEN Caught(a.jsonErr, MsgFallbackWeather)
  ELSE IF a.body.hasList /\ Len(a.body.list) > 0 THEN Succeeded(a.body.list[1])
  ELSE Caught(Err(MsgNoWeather), MsgFallbackWeather)

\* HistoryResult with the reverse() call forgotten.
HistoryResultUnreversed(a) ==
  IF a.rejected THEN Caught(a.err, MsgFallbackHistory)
  ELSE IF ~ResponseOk(a.status) THEN Caught(StatusError(a.status), MsgFallbackHistory)
  ELSE IF a.jsonRejected THEN Caught(a.jsonErr, MsgFallbackHistory)
  ELSE IF a.body.hasList /\ Len(a.body.list) > 0 THEN Succeeded(a.body.list)
  ELSE Caught(Err(MsgNoHistory), MsgFallbackHistory)

\* fetchHistoryData from `await fetch(apiUrl)` on (part_000 93-118).
HistoryResult(a) ==
  IF a.rejected THEN Caught(a.err, MsgFallbackHistory)
  ELSE IF ~ResponseOk(a.status) THEN Caught(StatusError(a.status), MsgFallbackHistory)
  ELSE IF a.jsonRejected THEN Caught(a.jsonErr, MsgFallbackHistory)
  ELSE IF a.body.hasList /\ Len(a.body.list) > 0 THEN Succeeded(Reverse(a.body.list))
  ELSE Caught(Err(MsgNoHistory), MsgFallbackHistory)

\* ApplyWeather with the finally block forgotten.
ApplyWeatherNoFinally(r, e, now) ==
  /\ weatherData' = IF e.ok THEN e.data ELSE weatherData
  /\ lastUpdate' = IF e.ok THEN Some(now) ELSE lastUpdate
  /\ error' = IF e.ok THEN error ELSE Some(e.message)
  /\ loading' = loading
  /\ toast' = IF e.ok THEN ToastWeatherUpdated ELSE ToastError
  /\ requests' = requests \ {r}
  /\ UNCHANGED <<showHistory, issued>>

\* ApplyWeather reading the clock on failure too.
ApplyWeatherStampAlways(r, e, now) ==
  /\ weatherData' = IF e.ok THEN e.data ELSE weatherData
  /\ lastUpdate' = Some(now)
  /\ error' = IF e.ok THEN error ELSE Some(e.message)
  /\ loading' = FALSE
  /\ toast' = IF e.ok THEN ToastWeatherUpdated ELSE ToastError
  /\ requests' = requests \ {r}
  /\ UNCHANGED <<showHistory, issued>>

\* The state updates of a resumed fetchWeatherData whose instance is mounted
\* (WeatherDashboard.tsx 109-130); now is the value of new Date().
ApplyWeather(r, e, now) ==
  /\ weatherData' = IF e.ok THEN e.data ELSE weatherData
  /\ lastUpdate' = IF e.ok THEN Some(now) ELSE lastUpdate
  /\ error' = IF e.ok THEN error ELSE Some(e.message)
  /\ loading' = FALSE
  /\ toast' = IF e.ok THEN ToastWeatherUpdated ELSE ToastError
  /\ requests' = requests \ {r}
  /\ UNCHANGED <<showHistory, issued>>

\* The state updates of a resumed fetchHistoryData whose instance is mounted
\* (part_000 108-128).
ApplyHistory(r, e) ==
  /\ historyData' = IF e.ok THEN Val(e.data) ELSE historyData
  /\ historyError' = IF e.ok THEN historyError ELSE Some(e.message)
  /\ historyLoading' = FALSE
  /\ toast' = IF e.ok THEN ToastHistoryUpdated ELSE ToastError
  /\ historyRequests' = historyRequests \ {r}
  /\ UNCHANGED historyIssued

\* BeginWeatherFetch with setLoading(true) forgotten.
BeginWeatherFetchNoLoading(cfg) ==
  /\ loading' = loading
  /\ error' = Null
  /\ requests' = requests \cup {Request(issued + 1, cfg)}
  /\ issued' = issued + 1

\* The first lines of fetchWeatherData, up to the first await.
BeginWeatherFetch(cfg) ==
  /\ loading' = TRUE
  /\ error' = Null
  /\ requests' = requests \cup {Request(issued + 1, cfg)}
  /\ issued' = issued + 1

\* The first lines of fetchHistoryData, up to the first await.
BeginHistoryFetch(cfg) ==
  /\ historyLoading' = TRUE
  /\ historyError' = Null
  /\ historyRequests' = historyRequests \cup {Request(historyIssued + 1, cfg)}
  /\ historyIssued' = historyIssued + 1

\* Pending calls of an instance that is unmounted: their state setters do
\* nothing from now on, so only the fetcher and the station remain.
Orphans(kind, rs) == { [kind |-> kind, stationId |-> r.stationId] : r \in rs }

\* Readings of new Date(), not earlier than the last one taken; the clock is
\* read only by a call that succeeds.
Clock(e) ==
  IF e.ok THEN { t \in 1..MaxClock : IsNull(lastUpdate) \/ t >= Val(lastUpdate) }
  ELSE {MaxClock}

\* -------------------------------------------------- mounting, unmounting
\* FormInitial ignoring initialConfig.
FormInitialEmpty(initialConfig) ==
  [apiKey |-> <<>>, stationId |-> <<>>, rememberMe |-> FALSE]

\* useState initial value of WeatherConfig's `config` (WeatherConfig.tsx 22-26).
FormInitial(initialConfig) ==
  [apiKey |-> IF ~IsNull(initialConfig) /\ Truthy(Val(initialConfig).apiKey)
              THEN Val(initialConfig).apiKey ELSE <<>>,
   stationId |-> IF ~IsNull(initialConfig) /\ Truthy(Val(initialConfig).stationId)
                 THEN Val(initialConfig).stationId ELSE <<>>,
   rememberMe |-> ~IsNull(initialConfig) /\ Val(initialConfig).rememberMe]

\* setInterval(fetchWeatherData, 5 * 60 * 1000)
StartTimer == timers' = timers + 1

\* StopTimer with the cleanup forgotten.
StopTimerNever == timers' = timers

\* The effect's cleanup: clearInterval(interval)
StopTimer == timers' = timers - 1

\* A WeatherDashboard instance is created and its effect runs
\* (WeatherDashboard.tsx 70-74, 133-140): first fetch, then the timer.
MountDashboard(cfg) ==
  /\ weatherData' = Null
  /\ lastUpdate' = Null
  /\ showHistory' = FALSE
  /\ loading' = TRUE
  /\ error' = Null
  /\ requests' = {Request(1, cfg)}
  /\ issued' = 1
  /\ StartTimer

\* The WeatherDashboard instance is destroyed: its effect's cleanup runs and
\* its pending calls outlive it.  The variables of the instance take the
\* values a new instance starts with.
UnmountDashboard ==
  /\ weatherData' = Null
  /\ lastUpdate' = Null
  /\ showHistory' = FALSE
  /\ loading' = TRUE
  /\ error' = Null
  /\ requests' = {}
  /\ issued' = 0
  /\ StopTimer
  /\ detached' = detached \cup Orphans("weather", requests)
                          \cup Orphans("history", historyRequests)

\* ------------------------------------------------------------ WeatherApp
\* The startup effect (WeatherCard.tsx 63-79).
LoadSavedConfig ==
  /\ isLoading
  /\ isLoading' = FALSE
  /\ UNCHANGED <<toast, histVars, detached, windVars>>
  /\ IF store.present /\ store.text # <<>>
     THEN LET parsed == Parse(store.text) IN
          IF parsed.ok
          THEN /\ config' = parsed.value
               /\ showConfig' = FALSE
               /\ UNCHANGED store
               /\ IF IsNull(parsed.value)
                  THEN /\ formConfig' = Some(FormInitial(Null))
                       /\ UNCHANGED <<dashVars, timers>>
                  ELSE /\ MountDashboard(Val(parsed.value))
                       /\ UNCHANGED formConfig
          ELSE /\ store' = NoItem
               /\ showConfig' = TRUE
               /\ formConfig' = Some(FormInitial(config))
               /\ UNCHANGED <<config, dashVars, timers>>
     ELSE /\ showConfig' = TRUE
          /\ formConfig' = Some(FormInitial(config))
          /\ UNCHANGED <<store, config, dashVars, timers>>

\* handleConfigSave (WeatherCard.tsx 81-84).
handleConfigSave(newConfig) ==
  /\ config' = Some(newConfig)
  /\ showConfig' = FALSE

\* handleSettingsClick (WeatherCard.tsx 86-88), reached from the Settings
\* button of the data view and the Check Settings button of the error view;
\* WeatherConfig is created with initialConfig = config.
handleSettingsClick ==
  /\ DashboardMounted
  /\ DashboardView \in {"data", "error"}
  /\ showConfig' = TRUE
  /\ formConfig' = Some(FormInitial(config))
  /\ UnmountDashboard
  /\ UNCHANGED <<store, toast, config, isLoading, histVars, windVars>>

\* --------------------------------------------------------- WeatherConfig
\* handleConfigChange(key, value) (WeatherConfig.tsx 65-70).
handleConfigChange ==
  /\ ConfigMounted
  /\ \/ \E v \in KeyInputs : formConfig' = Some([Val(formConfig) EXCEPT !.apiKey = v])
     \/ \E v \in StationInputs : formConfig' = Some([Val(formConfig) EXCEPT !.stationId = v])
     \/ \E v \in BOOLEAN : formConfig' = Some([Val(formConfig) EXCEPT !.rememberMe = v])
  /\ UNCHANGED <<store, toast, appVars, dashVars, timers, histVars, detached, windVars>>

\* ValidationError with the trim() calls forgotten.
ValidationErrorUntrimmed(c) ==
  IF c.apiKey = <<>> THEN ToastMissingKey
  ELSE IF c.stationId = <<>> THEN ToastMissingStation
  ELSE Null

\* The toast of the validation that rejects c, or null (WeatherConfig.tsx 31-47).
ValidationError(c) ==
  IF Trim(c.apiKey) = <<>> THEN ToastMissingKey
  ELSE IF Trim(c.stationId) = <<>> THEN ToastMissingStation
  ELSE Null

\* Persisted with the removeItem branch forgotten.
PersistedAlways(c) == Item(Stringify(c))

\* What localStorage holds after a save of c (WeatherConfig.tsx 50-54).
Persisted(c) == IF c.rememberMe THEN Item(Stringify(c)) ELSE NoItem

\* The Save Configuration button (WeatherConfig.tsx 153-160) is rendered
\* with the form and is never disabled.
SaveEnabled == ConfigMounted

\* handleSave (WeatherConfig.tsx 30-63); WeatherDashboard is created when
\* onConfigSave has cleared showConfig.
handleSave ==
  /\ SaveEnabled
  /\ UNCHANGED <<isLoading, histVars, detached, windVars>>
  /\ LET c == Val(formConfig) IN
     IF ~IsNull(ValidationError(c))
     THEN /\ toast' = ValidationError(c)
          /\ UNCHANGED <<store, config, showConfig, formConfig, dashVars, timers>>
     ELSE /\ store' = Persisted(c)
          /\ handleConfigSave(c)
          /\ toast' = ToastSaved
          /\ formConfig' = Null
          /\ MountDashboard(c)

\* ------------------------------------------------------ WeatherDashboard
\* RefreshEnabled for an error view without its Try Again button.
RefreshEnabledDataOnly == DashboardView = "data" /\ ~loading

\* The buttons that call fetchWeatherData: Try Again of the error view, and
\* Refresh of the data view (disabled={loading}).
RefreshEnabled ==
  \/ DashboardView = "error"
  \/ DashboardView = "data" /\ ~loading

\* A click on Try Again or Refresh.
ManualRefresh ==
  /\ DashboardMounted
  /\ RefreshEnabled
  /\ issued < MaxFetches
  /\ BeginWeatherFetch(Val(config))
  /\ UNCHANGED <<store, toast, appVars, formConfig, weatherData, lastUpdate,
                 showHistory, timers, histVars, detached, windVars>>

\* The interval timer fires and calls fetchWeatherData.  Were a timer to
\* outlive its instance, the call's setters would do nothing.
TimerTick ==
  /\ timers > 0
  /\ UNCHANGED <<store, toast, appVars, formConfig, weatherData, lastUpdate,
                 showHistory, timers, histVars, windVars>>
  /\ IF DashboardMounted
     THEN /\ issued < MaxFetches
          /\ BeginWeatherFetch(Val(config))
          /\ UNCHANGED detached
     ELSE /\ detached' = detached \cup {[kind |-> "weather", stationId |-> <<>>]}
          /\ UNCHANGED <<loading, error, requests, issued>>

\* The awaits of a pending fetchWeatherData settle with answer a and the
\* call runs to its end.
WeatherSettles(r, a) ==
  /\ DashboardMounted
  /\ r \in requests
  /\ \E now \in Clock(WeatherResult(a)) : ApplyWeather(r, WeatherResult(a), now)
  /\ UNCHANGED <<store, appVars, formConfig, timers, histVars, detached, windVars>>

\* The History button: setShowHistory(true); WeatherHistory is created and
\* its effect calls fetchHistoryData (part_000 71-73, 131-133).
OpenHistory ==
  /\ DashboardMounted
  /\ DashboardView = "data"
  /\ showHistory' = TRUE
  /\ historyData' = <<>>
  /\ historyLoading' = TRUE
  /\ historyError' = Null
  /\ historyRequests' = {Request(1, Val(config))}
  /\ historyIssued' = 1
  /\ UNCHANGED <<store, toast, appVars, formConfig, weatherData, loading, error,
                 lastUpdate, requests, issued, timers, detached, windVars>>

\* -------------------------------------------------------- WeatherHistory
\* onBackClick, from Back of the data view and Back to Dashboard of the error
\* view: setShowHistory(false); the WeatherHistory instance is destroyed.
BackClick ==
  /\ HistoryMounted
  /\ HistoryView \in {"data", "error"}
  /\ showHistory' = FALSE
  /\ historyData' = <<>>
  /\ historyLoading' = TRUE
  /\ historyError' = Null
  /\ historyRequests' = {}
  /\ historyIssued' = 0
  /\ detached' = detached \cup Orphans("history", historyRequests)
  /\ UNCHANGED <<store, toast, appVars, formConfig, weatherData, loading, error,
                 lastUpdate, requests, issued, timers, windVars>>

\* The buttons that call fetchHistoryData: Try Again of the error view, and
\* Refresh of the data view (disabled={loading}).
HistoryRefreshEnabled ==
  \/ HistoryView = "error"
  \/ HistoryView = "data" /\ ~historyLoading

\* A click on Try Again or Refresh.
HistoryRefresh ==
  /\ HistoryMounted
  /\ HistoryRefreshEnabled
  /\ historyIssued < MaxFetches
  /\ BeginHistoryFetch(Val(config))
  /\ UNCHANGED <<store, toast, appVars, formConfig, dashVars, timers, historyData,
                 detached, windVars>>

\* The awaits of a pending fetchHistoryData settle with answer a and the
\* call runs to its end.
HistorySettles(r, a) ==
  /\ HistoryMounted
  /\ r \in historyRequests
  /\ ApplyHistory(r, HistoryResult(a))
  /\ UNCHANGED <<store, appVars, formConfig, dashVars, timers, detached, windVars>>

\* ---------------------------------------------- calls of dead instances
\* The toasts a call of the given fetcher can end with.
EndToasts(d) ==
  IF d.kind = "weather"
  THEN { IF WeatherResult(a).ok THEN ToastWeatherUpdated ELSE ToastError :
         a \in WeatherAnswers(d.stationId) }
  ELSE { IF HistoryResult(a).ok THEN ToastHistoryUpdated ELSE ToastError :
         a \in HistoryAnswers(d.stationId) }

\* A call whose instance is unmounted runs to its end: its setters do
\* nothing, its toast is shown.  `detached` records that at least one such
\* call is pending, so the call may or may not be the last of its kind.
DetachedSettles(d, t) ==
  /\ d \in detached
  /\ toast' = t
  /\ detached' \in {detached, detached \ {d}}
  /\ UNCHANGED <<store, appVars, formConfig, dashVars, timers, histVars, windVars>>

\* ----------------------------------------------------- wind-direction card
\* The Wind Direction value is computed for a wind direction of d degrees.
RenderWindDirection(d) ==
  /\ degrees' = d
  /\ windDirection' = Some(<<getWindDirection(d), historyGetWindDirection(d)>>)
  /\ UNCHANGED <<store, toast, appVars, formConfig, dashVars, timers, histVars, detached>>

\* --------------------------------------------------------- specification
Next ==
  \/ LoadSavedConfig
  \/ handleSettingsClick
  \/ handleConfigChange
  \/ handleSave
  \/ ManualRefresh
  \/ TimerTick
  \/ \E r \in requests : \E a \in WeatherAnswers(r.stationId) :
       WeatherSettles(r, a)
  \/ OpenHistory
  \/ BackClick
  \/ HistoryRefresh
  \/ \E r \in historyRequests : \E a \in HistoryAnswers(r.stationId) :
       HistorySettles(r, a)
  \/ \E d \in detached : \E t \in EndToasts(d) : DetachedSettles(d, t)

Spec == Init /\ [][Next]_vars

\* The wind-direction lookup applied to every whole number of degrees.
WindNext == \E d \in 0..360 : RenderWindDirection(d)

WindSpec == Init /\ [][WindNext]_vars

\* ================================================================ claims
\* A step that ends a pending call removes it from requests (or from
\* historyRequests), so the formulas about the answer a call ends on range
\* over the calls the step removes.

\* A step in which a pending call of the mounted Dashboard runs to its end:
\* the step of a Dashboard that stays mounted which changes requests and
\* starts no call.
WeatherCallEnds ==
  /\ DashboardMounted /\ DashboardMounted'
  /\ requests' # requests
  /\ issued' = issued

\* A step in which a pending call of the mounted History view runs to its end.
HistoryCallEnds ==
  /\ HistoryMounted /\ HistoryMounted'
  /\ historyRequests' # historyRequests
  /\ historyIssued' = historyIssued
\* A text with a character that is not whitespace.
NonBlank(s) == \E i \in 1..Len(s) : s[i] # " "

\* The answer is a response with a 2xx status whose body decodes.
Decoded(a) == ~a.rejected /\ a.status \in 200..299 /\ ~a.jsonRejected

\* The answer is a response with a status outside 2xx.
ErrorStatus(a) == ~a.rejected /\ a.status \notin 200..299

\* C1: within one fetcher, when requests overlap, the completion of a
\* request that is not the most recently initiated one changes neither the
\* fetcher's data, nor its error, nor its loading flag.
C1_SupersededIgnored ==
  [][ /\ \A r \in requests : \A a \in WeatherAnswers(r.stationId) :
           (WeatherSettles(r, a) /\ r.id < issued)
             => UNCHANGED <<weatherData, error, loading>>
      /\ \A r \in historyRequests : \A a \in HistoryAnswers(r.stationId) :
           (HistorySettles(r, a) /\ r.id < historyIssued)
             => UNCHANGED <<historyData, historyError, historyLoading>>
    ]_vars

\* C2: a fetch that fails while fetched data exists leaves the data as it
\* is and the data view on screen, in the Dashboard and in the History view.
C2_FailureKeepsDataView ==
  [][ /\ \A r \in requests : \A a \in WeatherAnswers(r.stationId) :
           (WeatherSettles(r, a) /\ ~WeatherResult(a).ok /\ ~IsNull(weatherData))
             => /\ weatherData' = weatherData
                /\ DashboardView' \in {"data", "history"}
      /\ \A r \in historyRequests : \A a \in HistoryAnswers(r.stationId) :
           (HistorySettles(r, a) /\ ~HistoryResult(a).ok /\ historyData # <<>>)
             => /\ historyData' = historyData
                /\ HistoryView' = "data"
    ]_vars

\* C3: a save of a configuration whose apiKey and stationId are not blank
\* leaves localStorage holding exactly the submitted apiKey, stationId and
\* rememberMe if rememberMe is set, and no item if it is not.
C3_SavePersistsIffRemember ==
  [][ (handleSave /\ NonBlank(Val(formConfig).apiKey) /\ NonBlank(Val(formConfig).stationId))
        => LET c == Val(formConfig) IN
           IF c.rememberMe
           THEN /\ store' = Item(<<"{", "apiKey", c.apiKey, "stationId", c.stationId,
                                   "rememberMe", TRUE, "}">>)
                /\ Parse(store'.text) = [ok |-> TRUE, value |-> Some(c)]
           ELSE store' = NoItem
    ]_vars

\* A configuration with an untrimmed key has just been saved and persisted.
C3_Witness ==
  /\ toast = ToastSaved
  /\ DashboardMounted
  /\ store.present
  /\ Val(config).apiKey = <<" ", "k">>
  /\ Val(config).rememberMe

\* C4: a save whose apiKey or stationId is empty or whitespace-only raises a
\* validation toast and changes nothing else: not localStorage, not the
\* current configuration, not the view mode, which stays Configuring.
C4_InvalidSaveRejected ==
  [][ (handleSave /\ (~NonBlank(Val(formConfig).apiKey) \/ ~NonBlank(Val(formConfig).stationId)))
        => /\ toast' \in {ToastMissingKey, ToastMissingStation}
           /\ UNCHANGED <<store, appVars, formConfig, dashVars, timers, histVars, detached>>
           /\ ViewMode' = "Configuring"
    ]_vars

\* A save was rejected while a persisted copy exists and rememberMe is off
\* in the form.
C4_Witness ==
  /\ ConfigMounted
  /\ toast = ToastMissingKey
  /\ store.present
  /\ ~Val(formConfig).rememberMe

\* C5: in both fetchers a response with status 401 gives the invalid-key
\* error, 404 the station-not-found error, any other status outside 2xx an
\* HTTP error carrying that status; the body, decodable or not, is not
\* looked at and no data is stored.
C5_StatusErrors ==
  [][ /\ \A r \in requests \ requests' : \A a \in WeatherAnswers(r.stationId) :
           (ErrorStatus(a) /\ WeatherSettles(r, a))
             => /\ error' = Some(IF a.status = 401 THEN MsgInvalidKey
                                 ELSE IF a.status = 404 THEN MsgStationNotFound
                                 ELSE <<"HTTP error! status: ", a.status>>)
                /\ UNCHANGED <<weatherData, lastUpdate>>
                /\ toast' = ToastError
      /\ \A r \in historyRequests \ historyRequests' : \A a \in HistoryAnswers(r.stationId) :
           (ErrorStatus(a) /\ HistorySettles(r, a))
             => /\ historyError' = Some(IF a.status = 401 THEN MsgInvalidKey
                                        ELSE IF a.status = 404 THEN MsgStationNotFound
                                        ELSE <<"HTTP error! status: ", a.status>>)
                /\ UNCHANGED historyData
                /\ toast' = ToastError
    ]_vars

\* The Dashboard holds an HTTP 500 error and the History view a 401 error.
C5_Witness ==
  /\ HistoryMounted
  /\ error = Some(<<"HTTP error! status: ", 500>>)
  /\ historyError = Some(MsgInvalidKey)

\* C6: a decoded 2xx current-conditions response with observations empty or
\* missing gives the no-data error and stores no reading; otherwise the
\* first observation, as delivered, becomes the reading.  A decoded 2xx
\* history response with summaries empty or missing gives the no-data error.
C6_FirstObservationOrNoData ==
  [][ /\ \A r \in requests \ requests' : \A a \in WeatherAnswers(r.stationId) :
           (Decoded(a) /\ WeatherSettles(r, a))
             => IF a.body.hasList /\ a.body.list # <<>>
                THEN weatherData' = Some(Head(a.body.list))
                ELSE /\ error' = Some(MsgNoWeather)
                     /\ UNCHANGED <<weatherData, lastUpdate>>
      /\ \A r \in historyRequests \ historyRequests' : \A a \in HistoryAnswers(r.stationId) :
           (Decoded(a) /\ (~a.body.hasList \/ a.body.list = <<>>) /\ HistorySettles(r, a))
             => /\ historyError' = Some(MsgNoHistory)
                /\ UNCHANGED historyData
    ]_vars

\* A reading is stored and a later response had no observations.
C6_Witness ==
  /\ DashboardMounted
  /\ weatherData = Some([stationID |-> <<"s">>, temp |-> 20])
  /\ error = Some(MsgNoWeather)

\* C7: at most one interval timer exists: exactly one while the Dashboard is
\* mounted, none while it is not; so no step that keeps the Dashboard
\* mounted (a manual refresh among them) creates or cancels a timer.
C7_OneTimerWhileMounted == timers = (IF DashboardMounted THEN 1 ELSE 0)

\* The Dashboard was torn down while a call of fetchWeatherData was pending.
C7_Witness ==
  /\ ConfigMounted
  /\ ~IsNull(config)
  /\ detached # {}

\* C8: a successful history fetch stores the reverse of the delivered
\* sequence: element i of the result is element n + 1 - i of the input, so
\* index 1 holds the greatest epoch of an oldest-first input, and reversing
\* the result gives the input back.
C8_HistoryReversed ==
  [][ \A r \in historyRequests \ historyRequests' : \A a \in HistoryAnswers(r.stationId) :
        (Decoded(a) /\ a.body.hasList /\ a.body.list # <<>> /\ HistorySettles(r, a))
          => LET in == a.body.list
                 n == Len(in)
             IN /\ Len(historyData') = n
                /\ \A i \in 1..n : historyData'[i] = in[n + 1 - i]
                /\ (\A i \in 1..(n - 1) : in[i].epoch < in[i + 1].epoch)
                     => \A i \in 1..n : historyData'[1].epoch >= in[i].epoch
                /\ Reverse(historyData') = in
    ]_vars

\* The History view holds a sequence of two or more summaries.
C8_Witness ==
  /\ HistoryMounted
  /\ Len(historyData) >= 2
  /\ toast = ToastHistoryUpdated

\* C9: for every whole number of degrees from 0 to 360 the lookup gives the
\* name of the sector nearest to degrees / 22.5, sector 16 being sector 0:
\* 0, 11 and 360 give N, 90 gives E; the Dashboard and the History lookup
\* give the same name.
C9_WindDirection ==
  ~IsNull(windDirection) =>
    LET name == Val(windDirection)[1] IN
    /\ \E k \in 0..16 :
         /\ 4 * degrees - 90 * k <= 45
         /\ 90 * k - 4 * degrees <= 45
         /\ name = Directions[(k % 16) + 1]
    /\ name = Val(windDirection)[2]
    /\ degrees \in {0, 11, 360} => name = "N"
    /\ degrees = 90 => name = "E"

\* The lookup was applied to 360 degrees.
C9_Witness == degrees = 360 /\ ~IsNull(windDirection)

\* C10: the view mode changes only from Configuring to Dashboard by a save
\* that passes validation, from Dashboard to History by the History button,
\* from History to Dashboard by Back, and from Dashboard to Configuring by
\* the Settings button; each of these makes its change, the save sets the
\* current configuration to the saved one, and the form opened by Settings
\* shows the current configuration.
C10_ViewModeTransitions ==
  [][ ViewMode # "Starting" =>
      /\ ViewMode' # ViewMode =>
           \/ ViewMode = "Configuring" /\ ViewMode' = "Dashboard" /\ handleSave
           \/ ViewMode = "Dashboard" /\ ViewMode' = "History" /\ OpenHistory
           \/ ViewMode = "History" /\ ViewMode' = "Dashboard" /\ BackClick
           \/ ViewMode = "Dashboard" /\ ViewMode' = "Configuring" /\ handleSettingsClick
      /\ (handleSave /\ NonBlank(Val(formConfig).apiKey) /\ NonBlank(Val(formConfig).stationId))
           => ViewMode' = "Dashboard" /\ config' = formConfig
      /\ OpenHistory => ViewMode' = "History"
      /\ BackClick => ViewMode' = "Dashboard"
      /\ handleSettingsClick =>
           /\ ViewMode' = "Configuring"
           /\ config' = config
           /\ Truthy(Val(config).apiKey) => Val(formConfig').apiKey = Val(config).apiKey
           /\ Truthy(Val(config).stationId) => Val(formConfig').stationId = Val(config).stationId
           /\ Val(formConfig').rememberMe = Val(config).rememberMe
    ]_vars

\* Settings was opened from the Dashboard and the form shows the current
\* configuration.
C10_Witness ==
  /\ ViewMode = "Configuring"
  /\ ~IsNull(config)
  /\ formConfig = config

\* C11: the startup load of a store without an item enters Configuring with
\* no configuration; of an item that does not parse, deletes the item and
\* enters Configuring with no configuration; of an item that parses, makes
\* the parsed value the configuration and leaves the item as it is.
C11_LoadSavedConfig ==
  [][ LoadSavedConfig =>
        IF ~store.present
        THEN ViewMode' = "Configuring" /\ config' = Null /\ store' = store
        ELSE IF ~Parse(store.text).ok
        THEN store' = NoItem /\ ViewMode' = "Configuring" /\ config' = Null
        ELSE config' = Parse(store.text).value /\ store' = store
    ]_vars

\* The value is a text, and one with a character that is not whitespace.
PresentText(s) == s # Undefined /\ NonBlank(s)

\* C12: whenever the Dashboard or the History view is displayed, the
\* configuration has an apiKey and a stationId that are present and not
\* blank, whether it came from a save or from the startup load.
C12_DisplayedConfigComplete ==
  ViewMode \in {"Dashboard", "History"} =>
    /\ PresentText(Val(config).apiKey)
    /\ PresentText(Val(config).stationId)

\* C13: the Dashboard and the History view render their loading placeholder
\* only while a fetch is in progress and no fetched data is held; so data on
\* screen when a refresh starts stays on screen until the fetch ends.
C13_LoadingPlaceholderOnlyWithoutData ==
  /\ (DashboardMounted /\ DashboardView = "loading")
       => loading /\ IsNull(weatherData)
  /\ (HistoryMounted /\ HistoryView = "loading")
       => historyLoading /\ historyData = <<>>

\* C14: whatever the network answers (a rejection, a status outside 2xx, a
\* body that does not decode, an empty or missing list, a full list), the
\* call of fetchWeatherData or fetchHistoryData that receives the answer
\* ends in that step: it is pending no more, it has stored data with the
\* success notification or an error message with the error notification,
\* and it has set loading to false.
C14_FetchEndsInsideFetch ==
  [][ /\ WeatherCallEnds
           => /\ \E r \in requests : requests' = requests \ {r}
              /\ loading' = FALSE
              /\ \/ /\ ~IsNull(weatherData')
                    /\ toast' = ToastWeatherUpdated
                 \/ /\ ~IsNull(error')
                    /\ Val(error') # <<>>
                    /\ toast' = ToastError
      /\ HistoryCallEnds
           => /\ \E r \in historyRequests : historyRequests' = historyRequests \ {r}
              /\ historyLoading' = FALSE
              /\ \/ /\ historyData' # <<>>
                    /\ toast' = ToastHistoryUpdated
                 \/ /\ ~IsNull(historyError')
                    /\ Val(historyError') # <<>>
                    /\ toast' = ToastError
    ]_vars

\* A Dashboard refresh ended on a body that does not decode and the History
\* fetch on a rejected network call; neither fetcher is loading.
C14_Witness ==
  /\ HistoryMounted
  /\ error = Some(MsgSyntax)
  /\ ~loading
  /\ historyError = Some(MsgNetwork)
  /\ ~historyLoading

\* The controls a displayed placeholder or data view offers: Try Again on
\* the two error placeholders, Refresh on a data view that is not loading,
\* Save on the form that shows a validation notification.
RetryControlsOffered ==
  /\ (DashboardMounted /\ DashboardView = "error") => RefreshEnabled
  /\ (DashboardMounted /\ DashboardView = "data" /\ ~loading) => RefreshEnabled
  /\ (HistoryMounted /\ HistoryView = "error") => HistoryRefreshEnabled
  /\ (HistoryMounted /\ HistoryView = "data" /\ ~historyLoading) => HistoryRefreshEnabled
  /\ (ConfigMounted /\ toast \in {ToastMissingKey, ToastMissingStation}) => SaveEnabled

\* C15 as stated: in every state in which a failure is shown (by an error
\* placeholder, or by the error notification of a fetch that has just
\* failed, or by the notification of a rejected save) a control that runs
\* the failed operation again is enabled.
C15_RetryControlAlwaysEnabled ==
  [][ /\ RetryControlsOffered'
      /\ (WeatherCallEnds /\ toast' = ToastError) => RefreshEnabled'
      /\ (HistoryCallEnds /\ toast' = ToastError) => HistoryRefreshEnabled'
      /\ (handleSave /\ ~IsNull(ValidationError(Val(formConfig)))) => SaveEnabled'
    ]_vars

\* C15, amended: the same, for a failure of the view that is displayed; a
\* current-conditions fetch that fails while the History view covers the
\* Dashboard is excepted.
C15_RetryControlInOwnView ==
  [][ /\ RetryControlsOffered'
      /\ (WeatherCallEnds /\ toast' = ToastError /\ ~showHistory) => RefreshEnabled'
      /\ (HistoryCallEnds /\ toast' = ToastError) => HistoryRefreshEnabled'
      /\ (handleSave /\ ~IsNull(ValidationError(Val(formConfig)))) => SaveEnabled'
    ]_vars

\* A refresh of the Dashboard's data view has failed: the reading is still
\* displayed, with the error notification.
C15_Witness ==
  /\ DashboardMounted
  /\ DashboardView = "data"
  /\ toast = ToastError
  /\ ~IsNull(error)
  /\ ~loading

\* C16: lastUpdate is set, to the reading of the clock, in the step in which
\* a current-conditions fetch ends with success and a reading stored; a
\* fetch that starts and a fetch that fails leave it as it is, and no other
\* step of a mounted Dashboard changes it; so it is null exactly when no
\* reading is stored.
C16_LastUpdateOnSuccess ==
  [][ /\ WeatherCallEnds
           => IF toast' = ToastWeatherUpdated
              THEN /\ ~IsNull(weatherData')
                   /\ ~IsNull(lastUpdate')
                   /\ Val(lastUpdate') \in 1..MaxClock
                   /\ ~IsNull(lastUpdate) => Val(lastUpdate') >= Val(lastUpdate)
              ELSE UNCHANGED <<weatherData, lastUpdate>>
      /\ ManualRefresh => UNCHANGED lastUpdate
      /\ TimerTick => UNCHANGED lastUpdate
      /\ (DashboardMounted /\ DashboardMounted' /\ lastUpdate' # lastUpdate)
           => WeatherCallEnds /\ toast' = ToastWeatherUpdated
      /\ IsNull(lastUpdate') <=> IsNull(weatherData')
    ]_vars

\* Two fetches of one Dashboard instance have ended, the last success at
\* the second reading of the clock.
C16_Witness ==
  /\ DashboardMounted
  /\ issued = 2
  /\ requests = {}
  /\ lastUpdate = Some(2)
  /\ toast = ToastWeatherUpdated

\* C17: the sequence of summaries the History view holds and displays has
\* at most 7 elements, however many the response delivers.
C17_HistoryAtMostSeven == HistoryMounted => Len(historyData) <= 7

\* C18: a mounted Dashboard is loading, or holds an error, or holds a
\* reading, whatever the order in which its fetches start and end, so it
\* never takes the return of `if (!weatherData) return null`; and the
\* History view shows its data view only with a sequence that is not empty.
C18_NeverBlank ==
  /\ DashboardMounted =>
       /\ loading \/ ~IsNull(error) \/ ~IsNull(weatherData)
       /\ DashboardView # "blank"
  /\ (HistoryMounted /\ HistoryView = "data") => historyData # <<>>

\* Of two overlapping fetches the first has failed and the second is still
\* pending: loading is false, no reading is held, the error is shown.
C18_Witness ==
  /\ DashboardMounted
  /\ requests # {}
  /\ ~loading
  /\ IsNull(weatherData)
  /\ DashboardView = "error"

\* C19: in each fetcher the loading flag is true exactly while a request of
\* that fetcher is pending, also when two requests of the Dashboard overlap
\* and one of them ends first.
C19_LoadingIffPending ==
  /\ DashboardMounted => (loading <=> requests # {})
  /\ HistoryMounted => (historyLoading <=> historyRequests # {})

\* C20: the configuration changes only while no Dashboard is mounted; a
\* Dashboard and a History view start, when mounted, with no data, no error,
\* loading, and one request built from the configuration; every pending
\* request of a mounted view carries the apiKey and stationId of the
\* configuration, and so does the request whose answer is stored; the data
\* held is of the configured station; a step in which a call of an
\* unmounted instance ends changes no data, error or loading flag.
C20_DataFromCurrentConfig ==
  [][ /\ config' # config => ~DashboardMounted
      /\ (~DashboardMounted /\ DashboardMounted')
           => /\ IsNull(weatherData') /\ IsNull(error') /\ IsNull(lastUpdate') /\ loading'
              /\ requests' = {[id |-> 1, apiKey |-> Val(config').apiKey,
                               stationId |-> Val(config').stationId]}
      /\ (~HistoryMounted /\ HistoryMounted')
           => /\ historyData' = <<>> /\ IsNull(historyError') /\ historyLoading'
              /\ historyRequests' = {[id |-> 1, apiKey |-> Val(config').apiKey,
                                      stationId |-> Val(config').stationId]}
      /\ DashboardMounted'
           => /\ \A r \in requests' \cup historyRequests' :
                   /\ r.apiKey = Val(config').apiKey
                   /\ r.stationId = Val(config').stationId
              /\ ~IsNull(weatherData')
                   => Val(weatherData').stationID = Val(config').stationId
              /\ \A i \in 1..Len(historyData') :
                   historyData'[i].stationID = Val(config').stationId
      /\ WeatherCallEnds
           => \A r \in requests \ requests' :
                r.apiKey = Val(config).apiKey /\ r.stationId = Val(config).stationId
      /\ HistoryCallEnds
           => \A r \in historyRequests \ historyRequests' :
                r.apiKey = Val(config).apiKey /\ r.stationId = Val(config).stationId
      /\ (detached' # detached /\ detached' \subseteq detached)
           => UNCHANGED <<weatherData, error, loading, lastUpdate,
                          historyData, historyError, historyLoading>>
    ]_vars

\* A Dashboard mounted after a change of the apiKey holds a reading while a
\* call of the previous instance is still pending.
C20_Witness ==
  /\ DashboardMounted
  /\ Val(config).apiKey = <<" ", "k">>
  /\ ~IsNull(weatherData)
  /\ detached # {}

====
